---- MODULE Spec2Model ----
(***************************************************************************)
(* Model of scrape_functions.py: save_file, get_lyrics, scrape_artist,     *)
(* get_artists and scrape_all.  Python strings are TLA+ strings; the file  *)
(* system is a function from the paths of the existing files to their      *)
(* content plus the set of the existing directories.                       *)
(***************************************************************************)
EXTENDS Integers, Sequences, FiniteSets, TLC

VARIABLES
    fs,       \* the files on disk: path -> content
    dirs,     \* the directories on disk
    hist,     \* history of the calls made so far (one record per call)
    pc,       \* position of the running program
    page,     \* the song page served at the URL given to get_lyrics
    args,     \* the arguments the entry point was called with
    run,      \* how many times scrape_all has been started
    lets,     \* scrape_all: the tokens to visit
    let_k,    \* scrape_all: position of the outer loop in lets
    artists_urls,  \* scrape_all: what get_artists returned
    artists_names,
    art_i,    \* scrape_all: position of the inner loop in artists_urls
    urls,     \* scrape_artist: the song URLs of the artist page
    song_i,   \* scrape_artist: position of the loop in urls
    rt        \* scrape_artist: the duration being slept, -1 when awake

crawl == <<run, lets, let_k, artists_urls, artists_names, art_i, urls, song_i, rt>>

vars == <<fs, dirs, hist, pc, page, args, crawl>>

\* scrape_all has not been called.
CrawlIdle ==
    /\ run = 0
    /\ lets = <<>>
    /\ let_k = 0
    /\ artists_urls = <<>>
    /\ artists_names = <<>>
    /\ art_i = 0
    /\ urls = <<>>
    /\ song_i = 0
    /\ rt = -1

(***************************************************************************)
(* Bounds of the model.                                                    *)
(***************************************************************************)
MaxCalls == 3

MaxLyricsCalls == 2

MaxAlbumLen == 4

MaxLetters == 2

MaxRuns == 2

(***************************************************************************)
(* Python string operations.                                               *)
(***************************************************************************)
CharAt(s, i) == SubSeq(s, i, i)

\* str.replace(old, new) for a one-character old.
RECURSIVE Replace(_, _, _)
Replace(s, old, new) ==
    IF s = "" THEN ""
    ELSE (IF Head(s) = old THEN new ELSE Head(s)) \o Replace(Tail(s), old, new)

(***************************************************************************)
(* The file system collaborator.                                           *)
(***************************************************************************)
\* os.path.exists: a file or a directory of that name.
Exists(f, d, path) == path \in DOMAIN f \/ path \in d

\* open(path, "w"); write(text); close(): creates or truncates the file.
WriteFile(f, path, text) == (path :> text) @@ f

(***************************************************************************)
(* save_file(path, text, replace)                                          *)
(***************************************************************************)
\* The file save_file opens: the branch taken at lines 10-20.
SavePath_IgnoreReplace(f, d, path, replace) ==
    IF Exists(f, d, path \o ".txt")
    THEN path \o "_2" \o ".txt"
    ELSE path \o ".txt"

SavePath_NeverFallback(f, d, path, replace) == path \o ".txt"

SavePath(f, d, path, replace) ==
    IF ~replace
    THEN IF Exists(f, d, path \o ".txt")
         THEN path \o "_2" \o ".txt"
         ELSE path \o ".txt"
    ELSE path \o ".txt"

save_file(f, d, path, text, replace) ==
    WriteFile(f, SavePath(f, d, path, replace), text)

(***************************************************************************)
(* Direct use of save_file in one directory: any prior content of the      *)
(* directory, then up to MaxCalls calls.                                   *)
(***************************************************************************)
Texts == {"la", "na"}

\* File-name stems: the titles "Foo" and "Foo 2" with spaces replaced.
Stems == {Replace("Foo", " ", "_"), Replace("Foo 2", " ", "_")}

SaveFiles == UNION {{s \o ".txt", s \o "_2" \o ".txt"} : s \in Stems}

PriorDirectories == UNION {[D -> Texts] : D \in SUBSET SaveFiles}

InitSave ==
    /\ fs \in PriorDirectories
    /\ dirs = {}
    /\ hist = <<>>
    /\ pc = "save"
    /\ page = "none"
    /\ args = "none"
    /\ CrawlIdle

CallSaveFile(path, text, replace) ==
    /\ pc = "save"
    /\ Len(hist) < MaxCalls
    /\ fs' = save_file(fs, dirs, path, text, replace)
    /\ hist' = Append(hist, [path |-> path, text |-> text,
                             replace |-> replace, pre |-> fs,
                             wrote |-> SavePath(fs, dirs, path, replace)])
    /\ UNCHANGED <<dirs, pc, page, args, crawl>>

NextSave ==
    \E path \in Stems, text \in Texts, replace \in BOOLEAN :
        CallSaveFile(path, text, replace)

SpecSave == InitSave /\ [][NextSave]_vars

\* The file system after the i-th call of the history.
Post(i) == IF i = Len(hist) THEN fs ELSE hist[i + 1].pre

\* Calls i, i+1, i+2 are save(path, _, replace=false) on one path, starting
\* where neither the primary nor the fallback file exists.
ThreeInARow(i) ==
    /\ i + 2 <= Len(hist)
    /\ \A k \in i .. i + 2 : hist[k].path = hist[i].path /\ ~hist[k].replace
    /\ hist[i].path \o ".txt" \notin DOMAIN hist[i].pre
    /\ hist[i].path \o "_2.txt" \notin DOMAIN hist[i].pre

\* C1: three save(path, text, replace=false) calls in a row on one path,
\* starting with neither file present: the first creates <path>.txt, the
\* second leaves it unchanged and creates <path>_2.txt, the third leaves the
\* primary unchanged and overwrites the fallback (primary = first text,
\* fallback = third text).
C1_ThreeSaves ==
    \A i \in 1 .. Len(hist) :
        ThreeInARow(i) =>
            LET p == hist[i].path \o ".txt"
                q == hist[i].path \o "_2.txt"
            IN  /\ p \in DOMAIN Post(i) /\ Post(i)[p] = hist[i].text
                /\ q \notin DOMAIN Post(i)
                /\ Post(i + 1)[p] = hist[i].text
                /\ q \in DOMAIN Post(i + 1) /\ Post(i + 1)[q] = hist[i + 1].text
                /\ Post(i + 2)[p] = hist[i].text
                /\ Post(i + 2)[q] = hist[i + 2].text

C1_Witness ==
    /\ Len(hist) >= 3
    /\ ThreeInARow(1)
    /\ hist[1].text # hist[2].text
    /\ hist[2].text # hist[3].text

\* The files that differ between two file systems.
Changed(f, g) ==
    {p \in DOMAIN f \cup DOMAIN g :
        ~(p \in DOMAIN f /\ p \in DOMAIN g /\ f[p] = g[p])}

\* C2: every save(path, text, replace=true) call, whatever the prior file
\* system, writes only the primary file <path>.txt, never the fallback, and
\* leaves the primary file holding the text of that call.
C2_ReplaceOverwritesPrimary ==
    \A i \in 1 .. Len(hist) :
        hist[i].replace =>
            LET p == hist[i].path \o ".txt"
            IN  /\ hist[i].wrote = p
                /\ p \in DOMAIN Post(i) /\ Post(i)[p] = hist[i].text
                /\ Changed(hist[i].pre, Post(i)) \subseteq {p}

C2_Witness ==
    /\ Len(hist) >= 2
    /\ \A i \in 1 .. 2 : hist[i].replace /\ hist[i].path = hist[1].path
    /\ hist[1].path \o ".txt" \in DOMAIN hist[1].pre
    /\ hist[1].text # hist[2].text

\* The i-th call wrote its stem's primary file.
WrotePrimary(i) == hist[i].wrote = hist[i].path \o ".txt"

\* C10: over any sequence of save calls with replace=false and any stems, a
\* file once written as some stem's primary file <stem>.txt is never changed
\* by a later call.
C10_PrimaryNeverChanged ==
    (\A k \in 1 .. Len(hist) : ~hist[k].replace) =>
        \A i \in 1 .. Len(hist) : \A j \in i .. Len(hist) :
            WrotePrimary(i) =>
                LET p == hist[i].path \o ".txt"
                IN  p \in DOMAIN Post(j) /\ Post(j)[p] = hist[i].text

(***************************************************************************)
(* More Python string operations, used by get_lyrics.                      *)
(***************************************************************************)
\* str.find(c): the 0-based index of the first c in s, or -1.
RECURSIVE FindFrom(_, _, _)
FindFrom(s, c, i) ==
    IF i > Len(s) THEN -1
    ELSE IF CharAt(s, i) = c THEN i - 1
    ELSE FindFrom(s, c, i + 1)

Find(s, c) == FindFrom(s, c, 1)

\* s[a:b] for a >= 0 and any b: a negative b counts from the end.
PySlice(s, a, b) ==
    LET n  == Len(s)
        b1 == IF b < 0 THEN (IF b + n < 0 THEN 0 ELSE b + n)
              ELSE (IF b > n THEN n ELSE b)
        a1 == IF a > n THEN n ELSE a
    IN  IF a1 >= b1 THEN "" ELSE SubSeq(s, a1 + 1, b1)

RECURSIVE LStrip(_)
LStrip(s) == IF s # "" /\ Head(s) = " " THEN LStrip(Tail(s)) ELSE s

RECURSIVE RStrip(_)
RStrip(s) ==
    IF s # "" /\ CharAt(s, Len(s)) = " "
    THEN RStrip(SubSeq(s, 1, Len(s) - 1))
    ELSE s

DigitChars == "0123456789"

IsDigit(c) == Find(DigitChars, c) >= 0

RECURSIVE DigitsValue(_, _)
DigitsValue(s, acc) ==
    IF s = "" THEN acc
    ELSE DigitsValue(Tail(s), 10 * acc + Find(DigitChars, Head(s)))

\* int(s): surrounding blanks stripped, an optional sign, then one or more
\* decimal digits; anything else raises ValueError (ok = FALSE).
ParseInt(s) ==
    LET t      == RStrip(LStrip(s))
        signed == t # "" /\ Head(t) \in {"-", "+"}
        body   == IF signed THEN Tail(t) ELSE t
        valid  == body # "" /\ \A i \in 1 .. Len(body) : IsDigit(CharAt(body, i))
    IN  IF ~valid THEN [ok |-> FALSE, val |-> 0]
        ELSE [ok |-> TRUE,
              val |-> IF signed /\ Head(t) = "-"
                      THEN 0 - DigitsValue(body, 0)
                      ELSE DigitsValue(body, 0)]

\* str(n) for an integer n.
RECURSIVE IntToStr(_)
IntToStr(n) ==
    IF n < 0 THEN "-" \o IntToStr(0 - n)
    ELSE IF n < 10 THEN CharAt(DigitChars, n + 1)
    ELSE IntToStr(n \div 10) \o CharAt(DigitChars, (n % 10) + 1)

(***************************************************************************)
(* Directories.  "" is the working directory, which always exists.         *)
(***************************************************************************)
\* os.makedirs(path): the directory and its missing ancestors.
MakeDirs(d, path) ==
    d \cup {path}
      \cup {SubSeq(path, 1, i - 1) : i \in {k \in 2 .. Len(path) : CharAt(path, k) = "/"}}

RECURSIVE LastSlash(_, _)
LastSlash(s, i) ==
    IF i = 0 THEN 0
    ELSE IF CharAt(s, i) = "/" THEN i
    ELSE LastSlash(s, i - 1)

\* The directory open(path, "w") needs to exist.
ParentDir(path) ==
    LET k == LastSlash(path, Len(path))
    IN  IF k <= 1 THEN "" ELSE SubSeq(path, 1, k - 1)

DirExists(d, path) == path = "" \/ path \in d

(***************************************************************************)
(* get_lyrics(song_url, save, by_decade, replace, folder)                  *)
(*                                                                         *)
(* A song page is what the parser finds in it: the number of div elements  *)
(* and the text of div[20], the texts of the b elements, the texts of the  *)
(* elements of class songinalbum_title.  A year is <<>> (None) or <<y>>.   *)
(***************************************************************************)
LyricsDiv == 20

TitleBold == 1

\* Lines 31-38 with the decade cut from the album text instead of str(year).
AlbumYear_DecadeFromText(album) ==
    IF Len(album) = 1
    THEN LET album_text == album[1]
             sub == PySlice(album_text, Find(album_text, "(") + 1,
                            Find(album_text, ")"))
             y   == ParseInt(sub)
         IN  IF ~y.ok
             THEN [status |-> "ValueError", year |-> <<>>, decade |-> ""]
             ELSE [status |-> "ok", year |-> <<y.val>>,
                   decade |-> PySlice(sub, 0, 3) \o "0s"]
    ELSE [status |-> "ok", year |-> <<>>, decade |-> "others"]

\* Lines 31-38: year and decade from the album markers.
AlbumYear(album) ==
    IF Len(album) = 1
    THEN LET album_text == album[1]
             sub == PySlice(album_text, Find(album_text, "(") + 1,
                            Find(album_text, ")"))
             y   == ParseInt(sub)
         IN  IF ~y.ok
             THEN [status |-> "ValueError", year |-> <<>>, decade |-> ""]
             ELSE [status |-> "ok", year |-> <<y.val>>,
                   decade |-> PySlice(IntToStr(y.val), 0, 3) \o "0s"]
    ELSE [status |-> "ok", year |-> <<>>, decade |-> "others"]

\* Lines 28-38: the fields read from the parsed page, or the error raised.
Extract(pg) ==
    LET failed(e) == [status |-> e, title |-> "", file_title |-> "",
                      lyrics |-> "", year |-> <<>>, decade |-> ""]
    IN  IF ~(pg.ndivs > LyricsDiv) THEN failed("IndexError")
        ELSE IF ~(Len(pg.bold) > TitleBold) THEN failed("IndexError")
        ELSE LET title == Replace(pg.bold[TitleBold + 1], "\"", "")
                 ay    == AlbumYear(pg.album)
             IN  IF ay.status # "ok" THEN failed(ay.status)
                 ELSE [status |-> "ok", title |-> title,
                       file_title |-> Replace(title, " ", "_"),
                       lyrics |-> pg.div20, year |-> ay.year,
                       decade |-> ay.decade]

\* The block skipping a song whose primary file is already there.
SaveUnder_SkipExisting(st, dir, stem, text, replace) ==
    IF st.status # "ok" THEN st
    ELSE LET d1     == IF Exists(st.fs, st.dirs, dir) THEN st.dirs
                       ELSE MakeDirs(st.dirs, dir)
             path   == dir \o "/" \o stem
             target == SavePath(st.fs, d1, path, replace)
         IN  IF ~DirExists(d1, ParentDir(target))
             THEN [st EXCEPT !.status = "FileNotFoundError", !.dirs = d1]
             ELSE IF ~replace /\ Exists(st.fs, d1, path \o ".txt")
             THEN [st EXCEPT !.dirs = d1]
             ELSE [status |-> "ok",
                   fs     |-> save_file(st.fs, d1, path, text, replace),
                   dirs   |-> d1,
                   wrote  |-> Append(st.wrote, target)]

\* One "ensure the folder, then save_file" block (lines 42-46, 48-52) run on
\* the state st = [status, fs, dirs, wrote].
SaveUnder(st, dir, stem, text, replace) ==
    IF st.status # "ok" THEN st
    ELSE LET d1     == IF Exists(st.fs, st.dirs, dir) THEN st.dirs
                       ELSE MakeDirs(st.dirs, dir)
             path   == dir \o "/" \o stem
             target == SavePath(st.fs, d1, path, replace)
         IN  IF ~DirExists(d1, ParentDir(target))
             THEN [st EXCEPT !.status = "FileNotFoundError", !.dirs = d1]
             ELSE [status |-> "ok",
                   fs     |-> save_file(st.fs, d1, path, text, replace),
                   dirs   |-> d1,
                   wrote  |-> Append(st.wrote, target)]

\* Lines 39-52 with the decade copy written whatever by_decade says.
Persist_AlwaysDecade(f, d, ex, by_decade, replace, folder) ==
    LET st0 == [status |-> "ok", fs |-> f, dirs |-> d, wrote |-> <<>>]
        st1 == SaveUnder(st0, folder \o "/all", ex.file_title, ex.lyrics, replace)
    IN  SaveUnder(st1, folder \o "/decades/" \o ex.decade,
                  ex.file_title, ex.lyrics, replace)

\* Lines 41-52: the copy under all/, then the copy under decades/<decade>/.
Persist(f, d, ex, by_decade, replace, folder) ==
    LET st0 == [status |-> "ok", fs |-> f, dirs |-> d, wrote |-> <<>>]
        st1 == SaveUnder(st0, folder \o "/all", ex.file_title, ex.lyrics, replace)
    IN  IF by_decade
        THEN SaveUnder(st1, folder \o "/decades/" \o ex.decade,
                       ex.file_title, ex.lyrics, replace)
        ELSE st1

\* get_lyrics with the all/ folder made before the page is read.
get_lyrics_FolderFirst(pg, f, d, save, by_decade, replace, folder) ==
    LET ex == Extract(pg)
        d0 == IF save THEN MakeDirs(d, folder \o "/all") ELSE d
    IN  IF ex.status # "ok"
        THEN [status |-> ex.status, fs |-> f, dirs |-> d0, wrote |-> <<>>,
              ret |-> <<>>, song |-> ex]
        ELSE IF ~save
        THEN [status |-> "ok", fs |-> f, dirs |-> d0, wrote |-> <<>>,
              ret |-> <<ex.title, ex.lyrics, ex.year>>, song |-> ex]
        ELSE LET st == Persist(f, d0, ex, by_decade, replace, folder)
             IN  [status |-> st.status, fs |-> st.fs, dirs |-> st.dirs,
                  wrote |-> st.wrote, ret |-> <<>>, song |-> ex]

\* The outcome of get_lyrics on a page that urlopen delivered: the error
\* raised or "ok", the file system left behind, the files written in order,
\* the value returned (<<>> is None) and the fields computed on the way.
get_lyrics(pg, f, d, save, by_decade, replace, folder) ==
    LET ex == Extract(pg)
    IN  IF ex.status # "ok"
        THEN [status |-> ex.status, fs |-> f, dirs |-> d, wrote |-> <<>>,
              ret |-> <<>>, song |-> ex]
        ELSE IF ~save
        THEN [status |-> "ok", fs |-> f, dirs |-> d, wrote |-> <<>>,
              ret |-> <<ex.title, ex.lyrics, ex.year>>, song |-> ex]
        ELSE LET st == Persist(f, d, ex, by_decade, replace, folder)
             IN  [status |-> st.status, fs |-> st.fs, dirs |-> st.dirs,
                  wrote |-> st.wrote, ret |-> <<>>, song |-> ex]

(***************************************************************************)
(* Direct use of get_lyrics: one song page that urlopen delivers, read up  *)
(* to MaxLyricsCalls times into an empty working directory.                *)
(***************************************************************************)
AlbumAlphabet == {"(", ")", "0", "1"}

\* Every string over AlbumAlphabet of length at most n.
RECURSIVE Strs(_)
Strs(n) ==
    IF n = 0 THEN {""}
    ELSE LET S == Strs(n - 1) IN S \cup {s \o c : s \in S, c \in AlbumAlphabet}

AlbumTexts ==
    Strs(MaxAlbumLen)
        \cup {"album: \"Foo\" (1995)", "album: \"Foo\" (1987)", "EP: (x) (2001)",
              "(-50)", "(+7)", "( 2010 )", "( 01)", "single: Foo 1999", "(19 95)"}

\* Well-formed but for the album markers, which take every shape.
PagesAlbum ==
    {[ndivs |-> LyricsDiv + 1, div20 |-> " La la ", bold |-> <<"Artist", "\"Foo\"">>,
      album |-> a] :
        a \in {<<>>} \cup {<<t>> : t \in AlbumTexts}
                \cup {<<t, "album: \"Foo\" (1995)">> : t \in {"(1987)", "(1995)"}}}

\* One album marker, the page structure taking every shape.
PagesStructure ==
    {[ndivs |-> n, div20 |-> " La la ", bold |-> b, album |-> a] :
        n \in {LyricsDiv, LyricsDiv + 1},
        b \in {<<"Artist">>, <<"Artist", "\"Foo 2\"">>, <<"Artist", "A/B">>},
        a \in {<<>>, <<"album: \"Foo\" (1995)">>}}

SongPages == PagesAlbum \cup PagesStructure

InitLyrics ==
    /\ page \in SongPages
    /\ args \in [replace : BOOLEAN, folder : {"songs"}]
    /\ fs = <<>>
    /\ dirs = {}
    /\ hist = <<>>
    /\ pc = "lyrics"
    /\ CrawlIdle

CallGetLyrics(save, by_decade) ==
    /\ pc = "lyrics"
    /\ Len(hist) < MaxLyricsCalls
    /\ LET res == get_lyrics(page, fs, dirs, save, by_decade,
                             args.replace, args.folder)
       IN  /\ hist' = Append(hist, [save |-> save, by_decade |-> by_decade,
                                    pre |-> fs, preDirs |-> dirs, res |-> res])
           /\ fs' = res.fs
           /\ dirs' = res.dirs
    /\ UNCHANGED <<pc, page, args, crawl>>

NextLyrics ==
    \E save \in BOOLEAN, by_decade \in BOOLEAN : CallGetLyrics(save, by_decade)

SpecLyrics == InitLyrics /\ [][NextLyrics]_vars

\* The text between the first "(" of t and the first ")" after it, as a
\* one-element sequence; <<>> when t has no such pair.
Parenthesized(t) ==
    LET opens == {i \in 1 .. Len(t) : CharAt(t, i) = "("}
    IN  IF opens = {} THEN <<>>
        ELSE LET i == CHOOSE k \in opens : \A m \in opens : k <= m
                 closes == {j \in i + 1 .. Len(t) : CharAt(t, j) = ")"}
             IN  IF closes = {} THEN <<>>
                 ELSE LET j == CHOOSE k \in closes : \A m \in closes : k <= m
                      IN  <<SubSeq(t, i + 1, j - 1)>>

FirstThree(s) == IF Len(s) <= 3 THEN s ELSE SubSeq(s, 1, 3)

StartsWith(s, prefix) ==
    Len(s) >= Len(prefix) /\ SubSeq(s, 1, Len(prefix)) = prefix

\* C4: a completed get_lyrics call with save and by_decade writes exactly two
\* files, one under <folder>/all/ and one under <folder>/decades/<decade>/
\* for the song's own decade, both holding the extracted lyrics; without
\* by_decade it writes only the file under <folder>/all/ and creates or
\* changes nothing under <folder>/decades/.
C4_TwoCopies ==
    \A i \in 1 .. Len(hist) :
        (hist[i].res.status = "ok" /\ hist[i].save) =>
            LET res     == hist[i].res
                allDir  == args.folder \o "/all/"
                decades == args.folder \o "/decades"
                decDir  == decades \o "/" \o res.song.decade \o "/"
            IN  /\ Changed(hist[i].pre, res.fs) \subseteq
                       {res.wrote[k] : k \in 1 .. Len(res.wrote)}
                /\ \A k \in 1 .. Len(res.wrote) :
                       /\ res.wrote[k] \in DOMAIN res.fs
                       /\ res.fs[res.wrote[k]] = page.div20
                /\ StartsWith(res.wrote[1], allDir)
                /\ IF hist[i].by_decade
                   THEN /\ Len(res.wrote) = 2
                        /\ StartsWith(res.wrote[2], decDir)
                        /\ res.wrote[1] # res.wrote[2]
                   ELSE /\ Len(res.wrote) = 1
                        /\ \A q \in (res.dirs \ hist[i].preDirs) :
                               ~StartsWith(q, decades)
                        /\ ~StartsWith(res.wrote[1], decades)

\* The second call writes the fallback under all/ and the primary file
\* under decades/.
C4_Witness ==
    /\ Len(hist) >= 2
    /\ ~args.replace
    /\ hist[1].res.status = "ok" /\ hist[1].save /\ ~hist[1].by_decade
    /\ hist[2].res.status = "ok" /\ hist[2].save /\ hist[2].by_decade
    /\ hist[2].res.wrote = <<"songs/all/Foo_2.txt", "songs/decades/1990s/Foo.txt">>

(***************************************************************************)
(* The site.  Index pages list artists in the second div of class row;     *)
(* artist pages list songs as the links of the listalbum-item divs; song   *)
(* pages are as get_lyrics reads them.  urlopen of a URL the site does not *)
(* serve raises HTTPError.                                                 *)
(***************************************************************************)
home == "https://www.azlyrics.com/"

ascii_lowercase ==
    <<"a", "b", "c", "d", "e", "f", "g", "h", "i", "j", "k", "l", "m",
      "n", "o", "p", "q", "r", "s", "t", "u", "v", "w", "x", "y", "z">>

IndexPages ==
    [u \in {home \o ascii_lowercase[k] \o ".html" : k \in 3 .. 26} |->
        [rows |-> 2, links |-> <<>>]]
    @@ (home \o "a.html" :>
            [rows |-> 2,
             links |-> <<[href |-> "a/abba.html", text |-> "Abba"],
                         [href |-> "a/acdc.html", text |-> "ACDC"]>>])
    @@ (home \o "b.html" :>
            [rows |-> 2,
             links |-> <<[href |-> "b/beck.html", text |-> "Beck"]>>])
    @@ (home \o "19.html" :>
            [rows |-> 2,
             links |-> <<[href |-> "19/2bad.html", text |-> "2Bad"]>>])

ArtistPages ==
    (home \o "a/abba.html" :>
        <<"../lyrics/abba/foo.html", "../lyrics/abba/foo2.html">>)
    @@ (home \o "a/acdc.html" :> <<>>)
    @@ (home \o "b/beck.html" :> <<"../lyrics/beck/foo.html">>)
    @@ (home \o "19/2bad.html" :>
        <<"../lyrics/2bad/gone.html", "../lyrics/2bad/bar.html">>)

SongSite ==
    (home \o "lyrics/abba/foo.html" :>
        [ndivs |-> 30, div20 |-> " La la ", bold |-> <<"Abba Lyrics", "\"Foo\"">>,
         album |-> <<"album: \"Foo\" (1995)">>])
    @@ (home \o "lyrics/abba/foo2.html" :>
        [ndivs |-> 30, div20 |-> "Na na", bold |-> <<"Abba Lyrics", "\"Foo 2\"">>,
         album |-> <<>>])
    @@ (home \o "lyrics/beck/foo.html" :>
        [ndivs |-> 30, div20 |-> "Da da", bold |-> <<"Beck Lyrics", "\"Foo\"">>,
         album |-> <<"album: \"Odd\" (1995)", "album: \"Even\" (1987)">>])
    @@ (home \o "lyrics/2bad/gone.html" :>
        [ndivs |-> 20, div20 |-> "", bold |-> <<"2Bad Lyrics", "\"Gone\"">>,
         album |-> <<>>])
    @@ (home \o "lyrics/2bad/bar.html" :>
        [ndivs |-> 30, div20 |-> "Ba ba", bold |-> <<"2Bad Lyrics", "\"Bar\"">>,
         album |-> <<"album: \"Bad\" (1987)">>])

(***************************************************************************)
(* get_artists(letter)                                                     *)
(***************************************************************************)
get_artists(letter) ==
    LET url == home \o letter \o ".html"
    IN  IF url \notin DOMAIN IndexPages
        THEN [status |-> "HTTPError", url |-> url, urls |-> <<>>, names |-> <<>>]
        ELSE IF ~(IndexPages[url].rows > 1)
        THEN [status |-> "IndexError", url |-> url, urls |-> <<>>, names |-> <<>>]
        ELSE LET links == IndexPages[url].links
             IN  [status |-> "ok", url |-> url,
                  urls  |-> [k \in 1 .. Len(links) |-> home \o links[k].href],
                  names |-> [k \in 1 .. Len(links) |-> links[k].text]]

(***************************************************************************)
(* scrape_artist: lines 57-63, the song URLs of an artist page.            *)
(***************************************************************************)
\* href.split("/", 1)[1]: what follows the first "/".
AfterFirstSlash(href) == SubSeq(href, Find(href, "/") + 2, Len(href))

SongUrls(az_url) ==
    IF az_url \notin DOMAIN ArtistPages
    THEN [status |-> "HTTPError", urls |-> <<>>]
    ELSE LET hrefs == ArtistPages[az_url]
         IN  [status |-> "ok",
              urls |-> [k \in 1 .. Len(hrefs) |-> home \o AfterFirstSlash(hrefs[k])]]

(***************************************************************************)
(* The crawl: scrape_all calling get_artists and scrape_artist, which      *)
(* calls get_lyrics and sleeps.  No function catches an exception: one     *)
(* raised anywhere ends scrape_all (pc = "aborted").  The caller may then  *)
(* start scrape_all once more with the same arguments.                     *)
(***************************************************************************)
MinSleep == 5

MaxSleep == 15

LetterChars == {"a", "b", "0"}

\* Every string over LetterChars of length at most n.
RECURSIVE LetterStrs(_)
LetterStrs(n) ==
    IF n = 0 THEN {""}
    ELSE LET S == LetterStrs(n - 1) IN S \cup {s \o c : s \in S, c \in LetterChars}

SleepArgs == {[random |-> TRUE, secs |-> 0], [random |-> FALSE, secs |-> 3]}

CrawlArgs ==
    [letters : {"all"} \cup LetterStrs(MaxLetters), sleep : SleepArgs,
     by_decade : BOOLEAN, replace : BOOLEAN, folder : {"songs", "names"}]

Init ==
    /\ args \in CrawlArgs
    /\ fs = <<>>
    /\ dirs = {}
    /\ hist = <<>>
    /\ pc = "idle"
    /\ page = "none"
    /\ CrawlIdle

\* scrape_all lines 105-108: the folder handed to scrape_artist.
FoldName == IF args.folder = "names" THEN artists_names[art_i] ELSE args.folder

\* One entry of the crawl's history: the page asked for or the sleep, in
\* which run, how it ended, and for a song the folder argument, the file
\* system before the call and what get_lyrics did.
Event(kind, url, status, res) ==
    [kind |-> kind, run |-> run, url |-> url, status |-> status,
     folder |-> IF kind = "song" THEN FoldName ELSE "",
     pre |-> fs, preDirs |-> dirs, res |-> res]

\* Lines 91-97: "all" is the 26 letters and "19"; any other value is
\* iterated as it is (a string: character by character).
Tokens(letters) ==
    IF letters = "all"
    THEN Append(ascii_lowercase, IntToStr(19))
    ELSE [k \in 1 .. Len(letters) |-> CharAt(letters, k)]

\* The outer for loop of scrape_all takes its next token, or ends.
LetterLoop(k) ==
    IF k <= Len(lets)
    THEN pc' = "letter" /\ let_k' = k
    ELSE pc' = "done" /\ let_k' = k

\* The inner for loop of scrape_all takes its next artist, or ends.
ArtistLoop(i, n) ==
    IF i <= n
    THEN pc' = "artist" /\ art_i' = i /\ UNCHANGED let_k
    ELSE art_i' = i /\ LetterLoop(let_k + 1)

\* The loop of scrape_artist stopping one URL short.
SongLoop_OffByOne(i, n) ==
    IF i < n
    THEN pc' = "song" /\ song_i' = i /\ UNCHANGED <<let_k, art_i>>
    ELSE song_i' = i /\ ArtistLoop(art_i + 1, Len(artists_urls))

\* The for loop of scrape_artist takes its next URL, or scrape_artist
\* returns to the inner loop of scrape_all.
SongLoop(i, n) ==
    IF i <= n
    THEN pc' = "song" /\ song_i' = i /\ UNCHANGED <<let_k, art_i>>
    ELSE song_i' = i /\ ArtistLoop(art_i + 1, Len(artists_urls))

\* Lines 90-98: scrape_all computes lets and enters its outer loop.
EnterScrapeAll ==
    /\ run' = run + 1
    /\ lets' = Tokens(args.letters)
    /\ IF 1 <= Len(lets')
       THEN pc' = "letter" /\ let_k' = 1
       ELSE pc' = "done" /\ let_k' = 1
    /\ UNCHANGED <<fs, dirs, hist, page, args, artists_urls, artists_names,
                   art_i, urls, song_i, rt>>

\* scrape_all is called.
ScrapeAll ==
    /\ pc = "idle"
    /\ EnterScrapeAll

\* scrape_all has returned or raised and is called again with the same
\* arguments.
ScrapeAllAgain ==
    /\ pc \in {"done", "aborted"}
    /\ run < MaxRuns
    /\ EnterScrapeAll

\* Line 100: get_artists returns, or raises on a page it cannot read.
GetArtists ==
    /\ pc = "letter"
    /\ LET r == get_artists(lets[let_k])
       IN  /\ hist' = Append(hist, Event("index", r.url, r.status, <<>>))
           /\ IF r.status = "ok"
              THEN /\ artists_urls' = r.urls
                   /\ artists_names' = r.names
                   /\ ArtistLoop(1, Len(r.urls))
              ELSE /\ pc' = "aborted"
                   /\ UNCHANGED <<artists_urls, artists_names, art_i, let_k>>
    /\ UNCHANGED <<fs, dirs, page, args, run, lets, urls, song_i, rt>>

\* Line 79: urlopen raises (network failure).
GetArtistsURLError ==
    /\ pc = "letter"
    /\ hist' = Append(hist, Event("index", home \o lets[let_k] \o ".html",
                                  "URLError", <<>>))
    /\ pc' = "aborted"
    /\ UNCHANGED <<fs, dirs, page, args, crawl>>

\* Lines 105-109 and 57-65: scrape_artist is called and lists the songs.
ScrapeArtist ==
    /\ pc = "artist"
    /\ LET r == SongUrls(artists_urls[art_i])
       IN  /\ hist' = Append(hist, Event("artist", artists_urls[art_i], r.status, <<>>))
           /\ IF r.status = "ok"
              THEN /\ urls' = r.urls
                   /\ SongLoop(1, Len(r.urls))
              ELSE /\ pc' = "aborted"
                   /\ UNCHANGED <<urls, song_i, art_i, let_k>>
    /\ UNCHANGED <<fs, dirs, page, args, run, lets, artists_urls, artists_names, rt>>

\* Line 57: urlopen raises (network failure).
ScrapeArtistURLError ==
    /\ pc = "artist"
    /\ hist' = Append(hist, Event("artist", artists_urls[art_i], "URLError", <<>>))
    /\ pc' = "aborted"
    /\ UNCHANGED <<fs, dirs, page, args, crawl>>

\* The outcome of line 66 on the page the site serves at url.
FetchSong(url) ==
    IF url \in DOMAIN SongSite
    THEN get_lyrics(SongSite[url], fs, dirs, TRUE, args.by_decade, args.replace,
                    FoldName)
    ELSE [status |-> "HTTPError", fs |-> fs, dirs |-> dirs, wrote |-> <<>>,
          ret |-> <<>>, song |-> <<>>]

\* Line 66 with an exception of get_lyrics caught and the loop going on.
GetLyrics_Swallow ==
    /\ pc = "song"
    /\ LET res == FetchSong(urls[song_i])
       IN  /\ hist' = Append(hist, Event("song", urls[song_i], res.status, res))
           /\ fs' = res.fs
           /\ dirs' = res.dirs
           /\ pc' = "pace"
    /\ UNCHANGED <<page, args, crawl>>

\* Line 66: get_lyrics fetches the page, reads it and saves the lyrics, or
\* raises.
GetLyrics ==
    /\ pc = "song"
    /\ LET res == FetchSong(urls[song_i])
       IN  /\ hist' = Append(hist, Event("song", urls[song_i], res.status, res))
           /\ fs' = res.fs
           /\ dirs' = res.dirs
           /\ pc' = IF res.status = "ok" THEN "pace" ELSE "aborted"
    /\ UNCHANGED <<page, args, crawl>>

\* Line 26: urlopen raises (network failure, or no such page).
GetLyricsURLError ==
    /\ pc = "song"
    /\ hist' = Append(hist, Event("song", urls[song_i], "URLError",
                                  [status |-> "URLError", fs |-> fs, dirs |-> dirs,
                                   wrote |-> <<>>, ret |-> <<>>, song |-> <<>>]))
    /\ pc' = "aborted"
    /\ UNCHANGED <<fs, dirs, page, args, crawl>>

\* Lines 67-71 with the random range used whatever the sleep argument.
SleepTimes_AlwaysRandom(sleep) == MinSleep .. MaxSleep

\* Lines 67-71: the durations rt can take.
SleepTimes(sleep) ==
    IF sleep.random THEN MinSleep .. MaxSleep ELSE {sleep.secs}

\* Lines 67-74: the pause after a song; time.sleep(rt) is entered.
Pace ==
    /\ pc = "pace"
    /\ rt' \in SleepTimes(args.sleep)
    /\ hist' = Append(hist, Event("sleep", "", "ok", <<>>))
    /\ pc' = "sleeping"
    /\ UNCHANGED <<fs, dirs, page, args, run, lets, let_k, artists_urls,
                   artists_names, art_i, urls, song_i>>

\* time.sleep returns and the loop of scrape_artist goes on.
Wake ==
    /\ pc = "sleeping"
    /\ rt' = -1
    /\ SongLoop(song_i + 1, Len(urls))
    /\ UNCHANGED <<fs, dirs, hist, page, args, run, lets, artists_urls,
                   artists_names, urls>>

Step ==
    \/ GetArtistsURLError
    \/ GetArtists
    \/ ScrapeArtistURLError
    \/ ScrapeArtist
    \/ GetLyricsURLError
    \/ GetLyrics
    \/ Pace
    \/ Wake

Next == ScrapeAll \/ Step

Spec == Init /\ [][Next]_vars

\* The program runs on until it returns or raises.
FairSpec == Spec /\ WF_vars(Step)

(***************************************************************************)
(* The crawl run again: up to MaxRuns calls of scrape_all, one after the   *)
(* other, over the same site with the same arguments and replace=False.    *)
(***************************************************************************)
RerunArgs ==
    [letters : LetterStrs(MaxLetters), sleep : {[random |-> FALSE, secs |-> 3]},
     by_decade : BOOLEAN, replace : {FALSE}, folder : {"songs", "names"}]

InitRerun ==
    /\ args \in RerunArgs
    /\ fs = <<>>
    /\ dirs = {}
    /\ hist = <<>>
    /\ pc = "idle"
    /\ page = "none"
    /\ CrawlIdle

NextRerun == ScrapeAll \/ ScrapeAllAgain \/ Step

SpecRerun == InitRerun /\ [][NextRerun]_vars

Last(q) == q[Len(q)]

\* C5: the first error of an index, artist or song fetch ends the crawl
\* there: the program is aborted as soon as a fetch has failed, the failing
\* call leaves every older file as it was, and from then on no page is
\* fetched, nothing is slept and no file or folder is written: the program
\* takes no further step.
C5_AbortOnFirstError ==
    /\ []((hist # <<>> /\ Last(hist).run = run /\ Last(hist).status # "ok")
              => pc = "aborted")
    /\ [][(pc' = "aborted" /\ pc # "aborted")
              => /\ Len(hist') = Len(hist) + 1
                 /\ Last(hist').status # "ok"
                 /\ \A p \in DOMAIN fs : p \in DOMAIN fs' /\ fs'[p] = fs[p]]_vars
    /\ [][pc # "aborted"]_vars

\* A song fetch failed with files on disk and artists and letters to go.
C5_Witness ==
    /\ pc = "aborted"
    /\ run = 1
    /\ Last(hist).kind = "song"
    /\ DOMAIN fs # {}
    /\ art_i < Len(artists_urls)
    /\ let_k < Len(lets)

\* C6: get_lyrics with save=True on a page with fewer than 21 div elements
\* raises IndexError and leaves the file system as it was: no folder made,
\* no file written or changed.
C6_MalformedPageNoWrite ==
    \A k \in 1 .. Len(hist) :
        (/\ hist[k].kind = "song"
         /\ hist[k].status # "URLError"
         /\ hist[k].url \in DOMAIN SongSite
         /\ SongSite[hist[k].url].ndivs < 21) =>
            /\ hist[k].status = "IndexError"
            /\ hist[k].res.wrote = <<>>
            /\ hist[k].res.fs = hist[k].pre
            /\ hist[k].res.dirs = hist[k].preDirs
            /\ (k = Len(hist) => fs = hist[k].pre /\ dirs = hist[k].preDirs)

\* The malformed page is read when files are on disk and the folder of the
\* song does not exist yet.
C6_Witness ==
    /\ hist # <<>>
    /\ Last(hist).kind = "song"
    /\ Last(hist).status = "IndexError"
    /\ DOMAIN fs # {}
    /\ Last(hist).folder \notin dirs

\* The song pages that urlopen delivered in run r, in order.
Fetched(r) ==
    SelectSeq(hist, LAMBDA e : e.kind = "song" /\ e.run = r /\ e.status # "URLError")

NoURLError(r) == \A k \in 1 .. Len(hist) : hist[k].run = r => hist[k].status # "URLError"

\* Event e wrote its k-th copy, whose primary file is primary, as a re-run
\* with replace=False must: to the fallback when the primary file was
\* there, leaving the primary file alone.
CopyKept(e, k, primary, fallback) ==
    /\ Len(e.res.wrote) >= k
    /\ e.res.wrote[k] = (IF primary \in DOMAIN e.pre THEN fallback ELSE primary)
    /\ e.res.fs[e.res.wrote[k]] = SongSite[e.url].div20
    /\ primary \in DOMAIN e.pre => e.res.fs[primary] = e.pre[primary]

\* Run r of scrape_all is over.
RunOver(r) == r < run \/ (r = run /\ pc \in {"done", "aborted"})

\* C7: a further scrape_all over the same site and folder with replace=False
\* skips nothing: every song page fetched in the run before is fetched
\* again, and a song whose primary file exists is written to the fallback
\* file, the primary file left as it was.
C7_RerunSkipsNothing ==
    \A r \in 2 .. run :
        (RunOver(r) /\ ~args.replace /\ NoURLError(r)) =>
            LET f1 == Fetched(r - 1)
                f2 == Fetched(r)
            IN  /\ Len(f1) <= Len(f2)
                /\ \A k \in 1 .. Len(f1) : f2[k].url = f1[k].url
                /\ \A k \in 1 .. Len(f2) :
                       f2[k].status = "ok" =>
                           LET e    == f2[k]
                               stem == e.res.song.file_title
                               all  == e.folder \o "/all/" \o stem
                               dec  == e.folder \o "/decades/" \o e.res.song.decade
                                           \o "/" \o stem
                           IN  /\ CopyKept(e, 1, all \o ".txt", all \o "_2.txt")
                               /\ args.by_decade =>
                                      CopyKept(e, 2, dec \o ".txt", dec \o "_2.txt")

\* The second run ended after re-fetching the songs of the first run, whose
\* primary files were on disk.
C7_Witness ==
    /\ run = 2 /\ pc = "done" /\ ~args.replace /\ NoURLError(2)
    /\ Len(Fetched(1)) >= 3
    /\ Len(Fetched(2)) >= 3
    /\ \E k \in 1 .. Len(Fetched(2)) :
           LET e == Fetched(2)[k]
           IN  e.folder \o "/all/" \o e.res.song.file_title \o ".txt" \in DOMAIN e.pre

\* C8: every completed song fetch is followed by exactly one sleep before
\* any other page is fetched, a sleep only ever follows a completed song
\* fetch, and the duration slept is in MinSleep..MaxSleep when sleep is
\* "random" and the sleep argument otherwise.
C8_PacingAfterEachSong ==
    /\ \A k \in 1 .. Len(hist) :
           /\ (hist[k].kind = "song" /\ hist[k].status = "ok") =>
                  IF k < Len(hist) THEN hist[k + 1].kind = "sleep"
                  ELSE pc = "pace"
           /\ hist[k].kind = "sleep" =>
                  k > 1 /\ hist[k - 1].kind = "song" /\ hist[k - 1].status = "ok"
    /\ pc = "sleeping" =>
           /\ Last(hist).kind = "sleep"
           /\ IF args.sleep.random
              THEN rt \in 5 .. 15
              ELSE rt = args.sleep.secs
    /\ pc # "sleeping" => rt = -1

\* The second song of an artist has been fetched and the configured time is
\* being slept.
C8_Witness ==
    /\ pc = "sleeping"
    /\ ~args.sleep.random
    /\ rt = 3
    /\ song_i = 2

\* What a crawl without errors visits: per token the index page, per artist
\* of it the artist page, per song of it the song page and then a sleep.
RECURSIVE VisitSongs(_)
VisitSongs(us) ==
    IF us = <<>> THEN <<>>
    ELSE <<<<"song", Head(us)>>, <<"sleep", "">>>> \o VisitSongs(Tail(us))

RECURSIVE VisitArtists(_)
VisitArtists(as) ==
    IF as = <<>> THEN <<>>
    ELSE <<<<"artist", Head(as)>>>> \o VisitSongs(SongUrls(Head(as)).urls)
             \o VisitArtists(Tail(as))

RECURSIVE VisitLetters(_)
VisitLetters(ts) ==
    IF ts = <<>> THEN <<>>
    ELSE <<<<"index", home \o Head(ts) \o ".html">>>>
             \o VisitArtists(get_artists(Head(ts)).urls)
             \o VisitLetters(Tail(ts))

\* What run r visited.
Visited(r) ==
    LET es == SelectSeq(hist, LAMBDA e : e.run = r)
    IN  [k \in 1 .. Len(es) |-> <<es[k].kind, es[k].url>>]

\* C9: a crawl always ends, and one whose fetches all succeed has visited
\* the tokens in the given order, the artists of each token in index order
\* and the songs of each artist in page order, each song fetched once and
\* followed by its sleep; an artist without songs adds only its own page.
C9_TerminatesInOrder ==
    /\ (pc \in {"letter", "artist", "song", "pace", "sleeping"})
           ~> (pc \in {"done", "aborted"})
    /\ [](pc = "done" => Visited(run) = VisitLetters(Tokens(args.letters)))

\* A crawl of two tokens, one with an artist without songs, returned.
C9_Witness ==
    /\ pc = "done"
    /\ args.letters = "ab"
    /\ Len(Fetched(run)) = 3
    /\ \E k \in 1 .. Len(hist) - 1 :
           hist[k].kind = "artist" /\ hist[k + 1].kind = "index"
====
